---- MODULE Spec2Model ----
(***************************************************************************)
(* MediAgent: the chat front end (app.py), the pydantic_ai agent with its  *)
(* three search tools (src/agent.py) and the source adapters               *)
(* (src/functions.py).                                                     *)
(*                                                                         *)
(* Text is modelled as a sequence of one-token strings, so that splitting, *)
(* joining and cleaning are computed the way the Python code computes them.*)
(* A Python value that may be None is a record: Str(s) or NoneV.           *)
(***************************************************************************)
EXTENDS Integers, Sequences, FiniteSets, TLC

VARIABLES
    entry,            \* "web" (app.py) or "cli" (agent.py main)
    pc,               \* position of the entry point's handler / loop
    messages,         \* st.session_state.messages
    message_history,  \* st.session_state.message_history / main's message_history
    run,              \* the search_agent.run call in flight (or last finished)
    round,            \* the tools requested and forwarded in the last tool round
    citations,        \* input list handed to format_citations
    origin,           \* for each citation, the (index, title, url) it was built from
    fmt,              \* outcome of format_citations
    payload,          \* upstream payload handed to an adapter
    evidence,         \* what the adapter returned
    articles          \* what the search tool made of it

vars == << entry, pc, messages, message_history, run, round,
           citations, origin, fmt, payload, evidence, articles >>

appVars == << entry, pc, messages, message_history, run, round >>
citeVars == << citations, origin, fmt >>
adapterVars == << payload, evidence, articles >>

\* ------------------------------------------------------------------ bounds

\* longest citation title explored (in tokens); urls are one token shorter
MaxStrLen == 3
\* longest MedlinePlus content text explored (in tokens)
MaxTextLen == 2
\* citations in one list
MaxCites == 2
\* records in one PubMed / ClinicalTrials.gov reply
MaxRecords == 2
\* documents in one MedlinePlus reply, and content elements in one document
MaxDocs == 1
MaxContents == 2
\* primaryOutcomes entries of one study
MaxOutcomes == 4
\* queries put to one session
MaxQueries == 2
\* model round trips explored in a run that is given no usage limit
MaxRounds == 12

\* ------------------------------------------------------------------ text

Chars == {"a", " ", "-", "]"}

RECURSIVE StringsOver(_, _)
StringsOver(alphabet, n) ==
    IF n = 0 THEN { <<>> }
    ELSE LET shorter == StringsOver(alphabet, n - 1)
         IN  shorter \cup { Append(s, c) : s \in shorter, c \in alphabet }

StrsUpTo(n) == StringsOver(Chars, n)

RECURSIVE SeqsUpTo(_, _)
SeqsUpTo(S, n) ==
    IF n = 0 THEN { <<>> }
    ELSE LET shorter == SeqsUpTo(S, n - 1)
         IN  shorter \cup { Append(s, x) : s \in shorter, x \in S }

Last(s) == s[Len(s)]

\* does d occur in s at position i
OccursAt(s, d, i) ==
    /\ i >= 1
    /\ i + Len(d) - 1 <= Len(s)
    /\ SubSeq(s, i, i + Len(d) - 1) = d

Contains(s, d) == \E i \in 1..Len(s) : OccursAt(s, d, i)

FirstPos(s, d) == CHOOSE i \in 1..Len(s) :
                     OccursAt(s, d, i) /\ \A j \in 1..(i - 1) : ~OccursAt(s, d, j)

LastPos(s, d) == CHOOSE i \in 1..Len(s) :
                    OccursAt(s, d, i) /\ \A j \in (i + 1)..Len(s) : ~OccursAt(s, d, j)

\* str.rsplit(d, 1): cut at the last occurrence
SplitLast(s, d) ==
    IF Contains(s, d)
    THEN LET i == LastPos(s, d)
         IN  << SubSeq(s, 1, i - 1), SubSeq(s, i + Len(d), Len(s)) >>
    ELSE << s >>

\* str.split(d, 1): at most one cut, at the first occurrence; a list of one
\* element when d does not occur
SplitFirst(s, d) ==
    IF Contains(s, d)
    THEN LET i == FirstPos(s, d)
         IN  << SubSeq(s, 1, i - 1), SubSeq(s, i + Len(d), Len(s)) >>
    ELSE << s >>

BracketSpace == << "]", " " >>
SpaceDashSpace == << " ", "-", " " >>

\* the body of the loop of format_citations for one citation: two tuple
\* unpackings, each raising ValueError unless split returned two parts
ParseCitation(c) ==
    LET a == SplitFirst(c, BracketSpace)
    IN  IF Len(a) # 2 THEN [ok |-> FALSE]
        ELSE LET b == SplitFirst(a[2], SpaceDashSpace)
             IN  IF Len(b) # 2 THEN [ok |-> FALSE]
                 ELSE [ok |-> TRUE, num |-> a[1], title |-> b[1], url |-> b[2]]

\* f"{num}] [{title}]({url})"
RenderLink(num, title, url) ==
    num \o << "]", " ", "[" >> \o title \o << "]", "(" >> \o url \o << ")" >>

RECURSIVE JoinLines(_)
JoinLines(ls) ==
    IF Len(ls) = 0 THEN <<>>
    ELSE IF Len(ls) = 1 THEN ls[1]
    ELSE ls[1] \o << "\n" >> \o JoinLines(Tail(ls))

format_citations(cs) ==
    LET parsed == [i \in 1..Len(cs) |-> ParseCitation(cs[i])]
    IN  IF \E i \in 1..Len(cs) : ~parsed[i].ok
        THEN [raised |-> TRUE, exc |-> "ValueError"]
        ELSE [raised |-> FALSE,
              text |-> JoinLines([i \in 1..Len(cs) |->
                          RenderLink(parsed[i].num, parsed[i].title, parsed[i].url)])]

\* the wire format the system prompt asks the model for: "[number] Title - URL"
Digit == << "1", "2", "3" >>
Indices == 1..2
CitationString(index, title, url) ==
    << "[", Digit[index] >> \o BracketSpace \o title \o SpaceDashSpace \o url

\* ------------------------------------------------------------------ values

Str(s) == [t |-> "str", s |-> s]
NoneV == [t |-> "none"]
IsStr(v) == v.t = "str"

Returned(v) == [raised |-> FALSE, value |-> v]
Raised(e) == [raised |-> TRUE, exc |-> e]

\* s[:n]
Take(s, n) == SubSeq(s, 1, IF Len(s) < n THEN Len(s) ELSE n)
\* s[-n:]
TakeLast(s, n) == SubSeq(s, IF Len(s) > n THEN Len(s) - n + 1 ELSE 1, Len(s))

\* ------------------------------------------------------------------ adapters
\* (src/functions.py)  An upstream reply is [ok, ...]: ok = FALSE is a
\* transport or parse failure, raised by requests / metapub / ElementTree.

\* PubMed record as metapub hands it over
PubmedRecords ==
    [title : {NoneV, Str(<<>>), Str(<<"a">>)},
     abstract : {NoneV, Str(<<"a">>)},
     url : {Str(<<"u">>)}]

PubmedUpstreams(n) ==
    {[ok |-> FALSE, records |-> <<>>]}
    \cup [ok : {TRUE}, records : SeqsUpTo(PubmedRecords, n)]

fetch_articles(up) ==
    IF ~up.ok THEN Raised("ConnectionError")
    ELSE Returned([i \in 1..Len(up.records) |->
            [title |-> up.records[i].title,
             abstract |-> IF up.records[i].abstract = NoneV
                          THEN Str(<<>>) ELSE up.records[i].abstract,
             authors |-> <<>>,
             url |-> up.records[i].url]])

\* the JSON body of a ClinicalTrials.gov reply: a dict, here a function from
\* its keys; a study is flattened to the fields get_clinical_trails reads
Studies(outcomes) ==
    [hasResults : BOOLEAN,
     nctId : {NoneV, Str(<<"NCT1">>)},
     briefTitle : {NoneV, Str(<<"a">>)},
     briefSummary : {NoneV, Str(<<"a">>)},
     primaryOutcomes : {[i \in 1..n |-> i] : n \in 0..outcomes}]

EmptyDict == [k \in {} |-> <<>>]

TrialsUpstreams(n, outcomes) ==
    {[ok |-> FALSE, json |-> EmptyDict], [ok |-> TRUE, json |-> EmptyDict]}
    \cup { [ok |-> TRUE, json |-> [k \in {"studies"} |-> ss]] :
             ss \in SeqsUpTo(Studies(outcomes), n) }
    \cup { [ok |-> TRUE,
            json |-> [k \in {"studies", "nextPageToken"} |->
                        IF k = "studies" THEN ss ELSE <<"t">>]] :
             ss \in SeqsUpTo(Studies(outcomes), n) }

\* returns response.json() as it is
fetch_clinical_trails(up) ==
    IF ~up.ok THEN Raised("ConnectionError") ELSE Returned(up.json)

\* str(x) inside an f-string
PyStr(v) == IF v = NoneV THEN << "None" >> ELSE v.s

RECURSIVE ExtractStudies(_)
ExtractStudies(studies) ==
    IF Len(studies) = 0 THEN <<>>
    ELSE LET study == Head(studies)
             rest == ExtractStudies(Tail(studies))
         IN  IF ~study.hasResults THEN rest
             ELSE << [title |-> study.briefTitle,
                      abstract |-> study.briefSummary,
                      url |-> Str(<< "https://clinicaltrials.gov/study/" >>
                                  \o PyStr(study.nctId)),
                      primary_outcomes |-> TakeLast(study.primaryOutcomes, 3)] >>
                  \o rest

get_clinical_trails(up) ==
    LET output == fetch_clinical_trails(up)
    IN  IF output.raised THEN output
        ELSE LET studies == IF "studies" \in DOMAIN output.value
                            THEN output.value["studies"] ELSE <<>>
             IN  Returned(Take(ExtractStudies(studies), 5))

\* MedlinePlus text: letters, whitespace and the markup the service embeds
MedTokens == {"a", " ", "<p>", "<li>"}
RemovedTags == {"<span>", "</span>", "<p>", "</p>", "<ul>", "</ul>"}
BulletTags == {"<li>", "</li>"}
\* "*" stands for the bullet character of the replacement text

RECURSIVE SubstituteTags(_)
SubstituteTags(s) ==
    IF Len(s) = 0 THEN <<>>
    ELSE IF Head(s) \in RemovedTags THEN SubstituteTags(Tail(s))
    ELSE IF Head(s) \in BulletTags THEN << "*", " " >> \o SubstituteTags(Tail(s))
    ELSE << Head(s) >> \o SubstituteTags(Tail(s))

\* re.sub(r'\s+', ' ', text)
RECURSIVE CollapseSpaces(_)
CollapseSpaces(s) ==
    IF Len(s) = 0 THEN <<>>
    ELSE IF Len(s) >= 2 /\ s[1] = " " /\ s[2] = " " THEN CollapseSpaces(Tail(s))
    ELSE << Head(s) >> \o CollapseSpaces(Tail(s))

RECURSIVE LStrip(_)
LStrip(s) == IF Len(s) > 0 /\ Head(s) = " " THEN LStrip(Tail(s)) ELSE s

RECURSIVE RStrip(_)
RStrip(s) ==
    IF Len(s) > 0 /\ Last(s) = " " THEN RStrip(SubSeq(s, 1, Len(s) - 1)) ELSE s

_clean_text(text) == RStrip(LStrip(CollapseSpaces(SubstituteTags(text))))

MedContents(textLen) ==
    [name : {"title", "FullSummary", "groupName"},
     text : StringsOver(MedTokens, textLen)]

MedDocs(contents, textLen) ==
    [url : {NoneV, Str(<<>>), Str(<<"u">>)},
     contents : SeqsUpTo(MedContents(textLen), contents)]

MedlineUpstreams(docs, contents, textLen) ==
    {[ok |-> FALSE, docs |-> <<>>]}
    \cup [ok : {TRUE}, docs : SeqsUpTo(MedDocs(contents, textLen), docs)]

\* the inner loop over doc.findall('content'): a later element of the same
\* name overwrites an earlier one
RECURSIVE FillTopic(_, _)
FillTopic(topic, contents) ==
    IF Len(contents) = 0 THEN topic
    ELSE LET c == Head(contents)
             next == IF c.name = "title"
                     THEN [topic EXCEPT !.title = Str(_clean_text(c.text))]
                     ELSE IF c.name = "FullSummary"
                     THEN [topic EXCEPT !.summary = Str(_clean_text(c.text))]
                     ELSE topic
         IN  FillTopic(next, Tail(contents))

fetch_medline_plus(up) ==
    IF ~up.ok THEN Raised("ParseError")
    ELSE Returned(Take([i \in 1..Len(up.docs) |->
            FillTopic([title |-> Str(<<>>),
                       url |-> IF up.docs[i].url = NoneV
                               THEN Str(<<>>) ELSE up.docs[i].url,
                       summary |-> Str(<<>>)],
                      up.docs[i].contents)], 5))

\* ------------------------------------------------------------------ tools
\* (src/agent.py)

\* Article(**d): title, abstract and url are required str fields; the other
\* fields are optional and unknown keys are ignored
ArticleValid(d) ==
    /\ "title" \in DOMAIN d /\ IsStr(d.title)
    /\ "abstract" \in DOMAIN d /\ IsStr(d.abstract)
    /\ "url" \in DOMAIN d /\ IsStr(d.url)

Article(d) == [title |-> d.title, abstract |-> d.abstract, url |-> d.url]

\* [Article(**article) for article in articles] over a list of dicts
MakeArticles(ds) ==
    IF \E i \in 1..Len(ds) : ~ArticleValid(ds[i])
    THEN Raised("ValidationError")
    ELSE Returned([i \in 1..Len(ds) |-> Article(ds[i])])

search_pubmed(up) ==
    LET r == fetch_articles(up)
    IN  IF r.raised THEN r ELSE MakeArticles(r.value)

\* iterates over the reply dict itself, so each "article" is a key (a str)
\* and Article(**key) is a TypeError
search_clinical_trials(up) ==
    LET r == fetch_clinical_trails(up)
    IN  IF r.raised THEN r
        ELSE IF DOMAIN r.value = {} THEN Returned(<<>>)
        ELSE Raised("TypeError")

search_medline_plus(up) ==
    LET r == fetch_medline_plus(up)
    IN  IF r.raised THEN r ELSE MakeArticles(r.value)

\* ------------------------------------------------------------------ agent run
\* search_agent.run(prompt, usage=, usage_limits=, message_history=): the
\* agent of src/agent.py is built with result_type = str, no result validator
\* and the three tools above.

ToolNames == {"search_pubmed", "search_clinical_trials", "search_medline_plus"}

\* the result type the agent is constructed with
ResultType == "str"

\* UsageLimits(request_limit=10) of get_response
RequestLimit == 10
WebLimits == [given |-> TRUE, request_limit |-> RequestLimit]
\* main passes no usage_limits: the cap of get_response does not apply there
\* (whatever the library falls back to lies beyond the rounds explored here)
NoLimits == [given |-> FALSE]

\* upstream replies a tool call may meet during a run
ToolUpstreams(t) ==
    IF t = "search_pubmed"
    THEN { [ok |-> FALSE, records |-> <<>>],
           [ok |-> TRUE, records |-> <<>>],
           [ok |-> TRUE, records |-> << [title |-> Str(<<"a">>), abstract |-> NoneV,
                                         url |-> Str(<<"u">>)] >>],
           [ok |-> TRUE, records |-> << [title |-> NoneV, abstract |-> Str(<<"a">>),
                                         url |-> Str(<<"u">>)] >>] }
    ELSE IF t = "search_clinical_trials"
    THEN { [ok |-> FALSE, json |-> EmptyDict],
           [ok |-> TRUE, json |-> EmptyDict],
           [ok |-> TRUE, json |-> [k \in {"studies"} |-> <<>>]] }
    ELSE { [ok |-> FALSE, docs |-> <<>>],
           [ok |-> TRUE, docs |-> <<>>],
           [ok |-> TRUE, docs |-> << [url |-> Str(<<"u">>),
                                      contents |-> << [name |-> "title",
                                                       text |-> <<"a">>] >>] >>] }

CallTool(t, up) ==
    IF t = "search_pubmed" THEN search_pubmed(up)
    ELSE IF t = "search_clinical_trials" THEN search_clinical_trials(up)
    ELSE search_medline_plus(up)

\* what the model may hand back as its final text: an answer with a citation
\* section that is empty, well formed, or not in the "[n] Title - URL" form
GoodCitation == CitationString(1, <<"a">>, <<"u">>)
MalformedCitation == << "a" >>
Candidates == [answer : {<<"a">>},
               citations : { <<>>, << GoodCitation >>, << MalformedCitation >> }]
NoCandidate == [answer |-> <<>>, citations |-> <<>>]

IdleRun == [state |-> "Idle", requests |-> 0, usage_limits |-> NoLimits,
            msgs |-> <<>>, cand |-> NoCandidate, exc |-> "",
            drafts |-> 0, emptyDrafts |-> 0]
IdleRound == [requested |-> {}, returned |-> <<>>, sent |-> FALSE,
              forwarded |-> {}]

History(mh) == IF mh = NoneV THEN <<>> ELSE mh.msgs
SomeHistory(ms) == [t |-> "list", msgs |-> ms]

StartRun(limits, mh) ==
    [IdleRun EXCEPT !.state = "AwaitingModel",
                    !.usage_limits = limits,
                    !.msgs = Append(History(mh), "user")]

Range(s) == { s[i] : i \in 1..Len(s) }

\* usage_limits.check_before_request(usage)
LimitReached(r) ==
    r.usage_limits.given /\ r.requests >= r.usage_limits.request_limit

\* the request is refused before it is made
CheckLimit ==
    /\ pc = "running"
    /\ run.state = "AwaitingModel"
    /\ LimitReached(run)
    /\ run' = [run EXCEPT !.state = "Raised", !.exc = "UsageLimitExceeded"]
    /\ UNCHANGED << entry, pc, messages, message_history, round >>
    /\ UNCHANGED << citeVars, adapterVars >>

\* the model answers with tool calls: one task per call is started
ModelToolCalls ==
    /\ pc = "running"
    /\ run.state = "AwaitingModel"
    /\ ~LimitReached(run)
    /\ run.requests < MaxRounds
    /\ \E S \in (SUBSET ToolNames) \ {{}} :
         /\ run' = [run EXCEPT !.state = "ToolRequested",
                               !.requests = @ + 1,
                               !.msgs = Append(@, "tool-call")]
         /\ round' = [requested |-> S, returned |-> <<>>, sent |-> FALSE,
                      forwarded |-> {}]
    /\ UNCHANGED << entry, pc, messages, message_history >>
    /\ UNCHANGED << citeVars, adapterVars >>

\* the model answers with text: with result_type = str and no validator
\* registered the text is the result at once
ModelText ==
    /\ pc = "running"
    /\ run.state = "AwaitingModel"
    /\ ~LimitReached(run)
    /\ \E c \in Candidates :
         run' = [run EXCEPT !.state = "Accepted",
                            !.requests = @ + 1,
                            !.msgs = Append(@, "text"),
                            !.cand = c,
                            !.drafts = @ + 1,
                            !.emptyDrafts = IF c.citations = <<>> THEN @ + 1 ELSE @]
    /\ UNCHANGED << entry, pc, messages, message_history, round >>
    /\ UNCHANGED << citeVars, adapterVars >>

\* one tool task of the round runs to its end; an exception other than
\* ModelRetry leaves the tool and ends the run
ToolComplete ==
    /\ pc = "running"
    /\ run.state = "ToolRequested"
    /\ \E t \in round.requested \ Range(round.returned) :
       \E up \in ToolUpstreams(t) :
         LET out == CallTool(t, up)
         IN  IF out.raised
             THEN /\ run' = [run EXCEPT !.state = "Raised", !.exc = out.exc]
                  /\ UNCHANGED round
             ELSE /\ round' = [round EXCEPT !.returned = Append(@, t)]
                  /\ UNCHANGED run
    /\ UNCHANGED << entry, pc, messages, message_history >>
    /\ UNCHANGED << citeVars, adapterVars >>

\* resuming as soon as some task of the round is done
RoundResolvedAny(rd) == Len(rd.returned) > 0

\* the round's tasks are gathered
RoundResolved(rd) == Range(rd.returned) = rd.requested

\* the tool returns go back to the model as one request
ForwardRound ==
    /\ pc = "running"
    /\ run.state = "ToolRequested"
    /\ ~round.sent
    /\ RoundResolved(round)
    /\ round' = [round EXCEPT !.sent = TRUE, !.forwarded = Range(round.returned)]
    /\ run' = [run EXCEPT !.state = "AwaitingModel",
                          !.msgs = Append(@, "tool-return")]
    /\ UNCHANGED << entry, pc, messages, message_history >>
    /\ UNCHANGED << citeVars, adapterVars >>

RunOver == run.state \in {"Accepted", "Raised"}

\* ------------------------------------------------------------------ app.py

Prompts == { <<"q">> }

UserEntry(p) == [role |-> "user", content |-> p]
ErrorEntry(e) ==
    [role |-> "assistant",
     content |-> [answer |-> << "An error occurred: ", e >>, citations |-> <<>>]]
AnswerEntry(c) == [role |-> "assistant", content |-> c]
IsError(m) == m.role = "assistant" /\ Len(m.content.answer) = 2
                 /\ m.content.answer[1] = "An error occurred: "

\* the chat input: the user entry is appended and get_response is entered
WebSubmit ==
    /\ entry = "web"
    /\ pc = "idle"
    /\ Len(messages) < 2 * MaxQueries
    /\ \E p \in Prompts :
         /\ messages' = Append(messages, UserEntry(p))
         /\ run' = StartRun(WebLimits, message_history)
    /\ round' = IdleRound
    /\ pc' = "running"
    /\ UNCHANGED << entry, message_history >>
    /\ UNCHANGED << citeVars, adapterVars >>

\* the try block after run_until_complete: response_content is built from
\* result.data.answer and format_citations(result.data.citations)
ResponseContent(r) ==
    IF r.state = "Raised" THEN Raised(r.exc)
    ELSE IF ResultType # "SearchResponse" THEN Raised("AttributeError")
    ELSE LET f == format_citations(r.cand.citations)
         IN  IF f.raised THEN Raised(f.exc)
             ELSE Returned([answer |-> r.cand.answer, citations |-> f.text])

\* storing the history before the response content is built
HandlerHistoryEarly(r, mh) ==
    IF r.state = "Raised" THEN mh ELSE SomeHistory(r.msgs)

\* message_history after the handler
HandlerHistory(r, mh) ==
    IF ResponseContent(r).raised THEN mh ELSE SomeHistory(r.msgs)

WebFinish ==
    /\ entry = "web"
    /\ pc = "running"
    /\ RunOver
    /\ LET out == ResponseContent(run)
       IN  messages' = Append(messages, IF out.raised THEN ErrorEntry(out.exc)
                                        ELSE AnswerEntry(out.value))
    /\ message_history' = HandlerHistory(run, message_history)
    /\ pc' = "idle"
    /\ UNCHANGED << entry, run, round >>
    /\ UNCHANGED << citeVars, adapterVars >>

ClearChat ==
    /\ entry = "web"
    /\ pc = "idle"
    /\ messages' = <<>>
    /\ message_history' = NoneV
    /\ UNCHANGED << entry, pc, run, round >>
    /\ UNCHANGED << citeVars, adapterVars >>

\* ------------------------------------------------------------------ main()

UserTurns(mh) == Cardinality({ i \in 1..Len(History(mh)) : History(mh)[i] = "user" })

CliSubmit ==
    /\ entry = "cli"
    /\ pc = "idle"
    /\ UserTurns(message_history) < MaxQueries
    /\ run' = StartRun(NoLimits, message_history)
    /\ round' = IdleRound
    /\ pc' = "running"
    /\ UNCHANGED << entry, messages, message_history >>
    /\ UNCHANGED << citeVars, adapterVars >>

\* the statements after the await: nothing catches an exception of the run
CliFinish ==
    /\ entry = "cli"
    /\ pc = "running"
    /\ RunOver
    /\ IF run.state = "Raised"
       THEN pc' = "crashed" /\ UNCHANGED message_history
       ELSE pc' = "idle" /\ message_history' = SomeHistory(run.msgs)
    /\ UNCHANGED << entry, messages, run, round >>
    /\ UNCHANGED << citeVars, adapterVars >>

CliQuit ==
    /\ entry = "cli"
    /\ pc = "idle"
    /\ pc' = "exited"
    /\ UNCHANGED << entry, messages, message_history, run, round >>
    /\ UNCHANGED << citeVars, adapterVars >>

\* ------------------------------------------------------------------ Spec

CiteIdle == citations = <<>> /\ origin = <<>> /\ fmt = [called |-> FALSE]
AdapterIdle == /\ payload = [ok |-> FALSE]
               /\ evidence = [called |-> FALSE]
               /\ articles = [called |-> FALSE]
AppIdle == /\ pc = "idle"
           /\ messages = <<>>
           /\ message_history = NoneV
           /\ run = IdleRun
           /\ round = IdleRound

Init ==
    /\ entry \in {"web", "cli"}
    /\ AppIdle
    /\ CiteIdle
    /\ AdapterIdle

Next ==
    \/ WebSubmit
    \/ WebFinish
    \/ ClearChat
    \/ CliSubmit
    \/ CliFinish
    \/ CliQuit
    \/ CheckLimit
    \/ ModelToolCalls
    \/ ModelText
    \/ ToolComplete
    \/ ForwardRound

Spec == Init /\ [][Next]_vars

\* ------------------------------------------------------------------ SpecCite
\* format_citations on lists of citation strings

Titles == StrsUpTo(MaxStrLen)
Urls == StrsUpTo(MaxStrLen - 1)

Triple(i, title, url) == [index |-> i, title |-> title, url |-> url]
RawOrigin == [raw |-> TRUE]
IsTriple(o) == "index" \in DOMAIN o

\* a citation in the wire format is put on the list: any (index, title, url)
\* first, then the same one again or a fixed other one
AddCitation ==
    /\ ~fmt.called
    /\ Len(citations) < MaxCites
    /\ \E o \in (IF Len(citations) = 0
                 THEN { Triple(i, t, u) : i \in Indices, t \in Titles, u \in Urls }
                 ELSE { Triple(1, <<"a">>, <<"a">>) }
                      \cup { x \in {Last(origin)} : IsTriple(x) }) :
         /\ citations' = Append(citations, CitationString(o.index, o.title, o.url))
         /\ origin' = Append(origin, o)
    /\ UNCHANGED fmt
    /\ UNCHANGED << appVars, adapterVars >>

\* free text is put on the list
AddRaw ==
    /\ ~fmt.called
    /\ Len(citations) < MaxCites
    /\ \E raw \in (IF Len(citations) = 0 THEN StrsUpTo(MaxStrLen)
                   ELSE { MalformedCitation }) :
         /\ citations' = Append(citations, raw)
         /\ origin' = Append(origin, RawOrigin)
    /\ UNCHANGED fmt
    /\ UNCHANGED << appVars, adapterVars >>

FormatCitations ==
    /\ ~fmt.called
    /\ fmt' = [called |-> TRUE, out |-> format_citations(citations)]
    /\ UNCHANGED << citations, origin >>
    /\ UNCHANGED << appVars, adapterVars >>

InitCite ==
    /\ entry = "web"
    /\ AppIdle
    /\ CiteIdle
    /\ AdapterIdle

NextCite ==
    \/ AddCitation
    \/ AddRaw
    \/ FormatCitations

SpecCite == InitCite /\ [][NextCite]_vars

\* ------------------------------------------------------------------ SpecAdapters
\* the adapters and the tools on upstream replies

RunPubmed ==
    /\ ~evidence.called
    /\ \E up \in PubmedUpstreams(MaxRecords) :
         /\ payload' = [adapter |-> "fetch_articles", up |-> up]
         /\ evidence' = [called |-> TRUE, out |-> fetch_articles(up)]
         /\ articles' = [called |-> TRUE, out |-> search_pubmed(up)]
    /\ UNCHANGED << appVars, citeVars >>

RunTrialsTool ==
    /\ ~evidence.called
    /\ \E up \in TrialsUpstreams(MaxRecords, MaxOutcomes) :
         /\ payload' = [adapter |-> "fetch_clinical_trails", up |-> up]
         /\ evidence' = [called |-> TRUE, out |-> fetch_clinical_trails(up)]
         /\ articles' = [called |-> TRUE, out |-> search_clinical_trials(up)]
    /\ UNCHANGED << appVars, citeVars >>

\* get_clinical_trails is defined but no tool calls it
RunGetTrials ==
    /\ ~evidence.called
    /\ \E up \in TrialsUpstreams(MaxRecords, MaxOutcomes) :
         /\ payload' = [adapter |-> "get_clinical_trails", up |-> up]
         /\ evidence' = [called |-> TRUE, out |-> get_clinical_trails(up)]
         /\ articles' = [called |-> FALSE]
    /\ UNCHANGED << appVars, citeVars >>

RunMedline ==
    /\ ~evidence.called
    /\ \E up \in MedlineUpstreams(MaxDocs, MaxContents, MaxTextLen) :
         /\ payload' = [adapter |-> "fetch_medline_plus", up |-> up]
         /\ evidence' = [called |-> TRUE, out |-> fetch_medline_plus(up)]
         /\ articles' = [called |-> TRUE, out |-> search_medline_plus(up)]
    /\ UNCHANGED << appVars, citeVars >>

InitAdapters ==
    /\ entry = "web"
    /\ AppIdle
    /\ CiteIdle
    /\ AdapterIdle

NextAdapters ==
    \/ RunPubmed
    \/ RunTrialsTool
    \/ RunGetTrials
    \/ RunMedline

SpecAdapters == InitAdapters /\ [][NextAdapters]_vars

\* ------------------------------------------------------------------ properties

\* C1: in every run, on the web path and in the command-line loop alike, the
\* number of model round trips never exceeds the request limit of 10.
C1_RoundsWithinLimit == run.requests <= RequestLimit

\* C2: no answer is accepted while its citations list is empty.
C2_AcceptedHasCitations ==
    run.state = "Accepted" => Len(run.cand.citations) > 0

\* C3: every empty-citation candidate is rejected and followed by another
\* model round, so an accepted run has seen at least one more candidate than
\* it has seen empty-citation candidates.
C3_EmptyCandidatesRetried ==
    run.state = "Accepted" => run.drafts - 1 >= run.emptyDrafts

HasMalformed(cs) == \E i \in 1..Len(cs) : ~ParseCitation(cs[i]).ok

\* C4: a turn whose candidate carries a citation without the delimiters is
\* retried with the model; it never ends as an error entry of the chat.
C4_MalformedRetried ==
    ( /\ entry = "web" /\ pc = "idle" /\ Len(messages) > 0
      /\ run.state = "Accepted" /\ HasMalformed(run.cand.citations) )
    => ~IsError(Last(messages))

\* C5: a failure inside a search tool never ends the run: the only exception
\* a run ends with is the exhausted request budget.
C5_ToolFailureAbsorbed ==
    run.state = "Raised" => run.exc = "UsageLimitExceeded"

\* C6: after a web turn whose run was accepted, the chat shows the answer (not
\* an error) and the stored message_history is the run's full history.
C6_AcceptedTurnDelivered ==
    ( /\ entry = "web" /\ pc = "idle" /\ Len(messages) > 0
      /\ run.state = "Accepted" )
    => /\ ~IsError(Last(messages))
       /\ message_history = SomeHistory(run.msgs)

NonEmpty(v) == IsStr(v) /\ Len(v.s) > 0
AllCitable(rs) ==
    \A i \in 1..Len(rs) : NonEmpty(rs[i].title) /\ NonEmpty(rs[i].url)

\* C7: every record an adapter returns, and every Article a search tool
\* builds, has a non-empty title and a non-empty url.
C7_TitleAndUrlNonEmpty ==
    /\ ( /\ evidence.called
         /\ payload.adapter \in {"fetch_articles", "get_clinical_trails",
                                 "fetch_medline_plus"}
         /\ ~evidence.out.raised )
       => AllCitable(evidence.out.value)
    /\ (articles.called /\ ~articles.out.raised)
       => AllCitable(articles.out.value)

Reserved(s) == Contains(s, BracketSpace) \/ Contains(s, SpaceDashSpace)
EndsWith(s, d) ==
    Len(s) >= Len(d) /\ SubSeq(s, Len(s) - Len(d) + 1, Len(s)) = d
DelimiterFree(o) == IsTriple(o) /\ ~Reserved(o.title) /\ ~Reserved(o.url)

\* every citation comes back as the index, title and url it was built from,
\* in the order given, one line each
RoundTrips ==
    /\ ~fmt.out.raised
    /\ \A i \in 1..Len(citations) :
         ParseCitation(citations[i]) =
           [ok |-> TRUE, num |-> << "[", Digit[origin[i].index] >>,
            title |-> origin[i].title, url |-> origin[i].url]
    /\ fmt.out.text =
         JoinLines([i \in 1..Len(citations) |->
            RenderLink(<< "[", Digit[origin[i].index] >>,
                       origin[i].title, origin[i].url)])

\* C8 as stated: the round trip holds whenever neither delimiter occurs in
\* the title or the url.
C8_RoundTripAsStated ==
    (fmt.called /\ \A i \in 1..Len(origin) : DelimiterFree(origin[i]))
    => RoundTrips

\* C8 as amended: the round trip holds whenever neither delimiter occurs in
\* the title or the url and the title does not end in " -"; order is kept and
\* nothing is renumbered or dropped.
C8_RoundTrip ==
    ( /\ fmt.called
      /\ \A i \in 1..Len(origin) :
           /\ DelimiterFree(origin[i])
           /\ ~EndsWith(origin[i].title, << " ", "-" >>) )
    => RoundTrips

C8_Witness ==
    /\ fmt.called
    /\ ~fmt.out.raised
    /\ Len(origin) = 2
    /\ origin[1] = Triple(2, << "a", "]", "a" >>, << "-", " " >>)
    /\ origin[2] = origin[1]
    /\ RoundTrips

\* C9: the tool returns of a round go back to the model only when every tool
\* requested in the round has returned, and then all of them are forwarded,
\* whatever the order of completion.
C9_RoundForwardedWhole ==
    /\ round.sent => round.forwarded = round.requested
    /\ ( /\ run.state = "AwaitingModel"
         /\ Last(run.msgs) = "tool-return" )
       => (round.sent /\ round.forwarded = round.requested)

C9_Witness ==
    /\ round.sent
    /\ run.state = "AwaitingModel"
    /\ round.returned = << "search_medline_plus", "search_clinical_trials",
                           "search_pubmed" >>

\* C10: a failed web query adds exactly one assistant entry, carrying the
\* error text, and leaves message_history as it was; message_history changes
\* only to None (Clear Chat) or to the full history of a run whose turn was
\* delivered without error.
C10_FailedQueryFrame ==
    [][ /\ ( entry = "web" /\ pc = "running" /\ pc' = "idle" )
           => /\ Len(messages') = Len(messages) + 1
              /\ SubSeq(messages', 1, Len(messages)) = messages
              /\ Last(messages').role = "assistant"
              /\ run.state = "Raised"
                   => ( /\ IsError(Last(messages'))
                        /\ Last(messages').content.answer[2] = run.exc )
              /\ IsError(Last(messages')) => message_history' = message_history
        /\ ( entry = "web" /\ message_history' # message_history )
           => \/ message_history' = NoneV /\ messages' = <<>>
              \/ /\ pc = "running" /\ pc' = "idle"
                 /\ ~IsError(Last(messages'))
                 /\ message_history' = SomeHistory(run.msgs)
      ]_vars

C10_Witness ==
    /\ entry = "web"
    /\ pc = "idle"
    /\ Len(messages) = 2
    /\ messages[2] = ErrorEntry("UsageLimitExceeded")
    /\ message_history = NoneV

====
